---- MODULE Spec2Model ----
(***************************************************************************)
(* Model of app.py: the Streamlit "Amazon Book Analyzer".                  *)
(*                                                                         *)
(* Text is a sequence of one-character strings, so that str.replace,       *)
(* str.split, float(), int() and the `in` substring test are computed      *)
(* character by character.  A float is a fixed-point integer counting      *)
(* hundredths (12.99 is 1299); the sample texts carry at most two fraction *)
(* digits.  A JSON value is a record [t, s, n]: t is its kind, s its text  *)
(* (kind "str"), n its number (kinds "int", "float" in hundredths, "bool"  *)
(* as 0/1).  Kind "absent" is a key the object does not have.              *)
(***************************************************************************)
EXTENDS Integers, Sequences, FiniteSets, TLC

VARIABLES apiKey, cache, data, error, last_run, now, selected, view, call

vars == <<apiKey, cache, data, error, last_run, now, selected, view, call>>

----------------------------------------------------------------------------
(* Text primitives                                                         *)

Digits == <<"0", "1", "2", "3", "4", "5", "6", "7", "8", "9">>

IsDigit(c) == \E i \in 1..10 : Digits[i] = c

DigitVal(c) == (CHOOSE i \in 1..10 : Digits[i] = c) - 1

AllDigits(ds) == \A i \in 1..Len(ds) : IsDigit(ds[i])

RECURSIVE NatOf(_)
NatOf(ds) ==
    IF ds = <<>> THEN 0
    ELSE NatOf(SubSeq(ds, 1, Len(ds) - 1)) * 10 + DigitVal(ds[Len(ds)])

RECURSIVE StrOfNat(_)
StrOfNat(n) ==
    IF n < 10 THEN <<Digits[n + 1]>>
    ELSE StrOfNat(n \div 10) \o <<Digits[(n % 10) + 1]>>

StrOfInt(n) == IF n < 0 THEN <<"-">> \o StrOfNat(-n) ELSE StrOfNat(n)

Abs(h) == IF h < 0 THEN -h ELSE h

\* The fraction digits of repr(float): one digit, or two when the second is not 0
FracDigits(d1, d2) ==
    IF d2 = 0 THEN <<Digits[d1 + 1]>> ELSE <<Digits[d1 + 1], Digits[d2 + 1]>>

\* repr of a float with at most two fraction digits: 12.0, 12.5, 12.99
StrOfFloat(h) ==
    (IF h < 0 THEN <<"-">> ELSE <<>>) \o StrOfNat(Abs(h) \div 100) \o <<".">>
        \o FracDigits((Abs(h) % 100) \div 10, Abs(h) % 10)

RECURSIVE StripLeft(_)
StripLeft(s) == IF s # <<>> /\ s[1] = " " THEN StripLeft(Tail(s)) ELSE s

RECURSIVE StripRight(_)
StripRight(s) ==
    IF s # <<>> /\ s[Len(s)] = " " THEN StripRight(SubSeq(s, 1, Len(s) - 1)) ELSE s

Strip(s) == StripRight(StripLeft(s))

StartsWith(s, p) == Len(s) >= Len(p) /\ SubSeq(s, 1, Len(p)) = p

\* p in s
Contains(s, p) == \E i \in 1..(Len(s) - Len(p) + 1) : SubSeq(s, i, i + Len(p) - 1) = p

\* s.replace(old, "")
RECURSIVE Remove(_, _)
Remove(s, old) ==
    IF s = <<>> THEN <<>>
    ELSE IF StartsWith(s, old) THEN Remove(SubSeq(s, Len(old) + 1, Len(s)), old)
    ELSE <<s[1]>> \o Remove(Tail(s), old)

\* s.split(sep)[-1]
SplitLast(s, sep) ==
    IF Contains(s, sep)
    THEN LET i == CHOOSE j \in 1..(Len(s) - Len(sep) + 1) :
                      /\ SubSeq(s, j, j + Len(sep) - 1) = sep
                      /\ \A k \in (j + 1)..(Len(s) - Len(sep) + 1) :
                             SubSeq(s, k, k + Len(sep) - 1) # sep
         IN  SubSeq(s, i + Len(sep), Len(s))
    ELSE s

\* s.split(sep)[0]
SplitFirst(s, sep) ==
    IF Contains(s, sep)
    THEN LET i == CHOOSE j \in 1..(Len(s) - Len(sep) + 1) :
                      /\ SubSeq(s, j, j + Len(sep) - 1) = sep
                      /\ \A k \in 1..(j - 1) : SubSeq(s, k, k + Len(sep) - 1) # sep
         IN  SubSeq(s, 1, i - 1)
    ELSE s

HasSign(t) == t # <<>> /\ t[1] \in {"-", "+"}

IsNeg(t) == t # <<>> /\ t[1] = "-"

Unsigned(t) == IF HasSign(t) THEN Tail(t) ELSE t

Dots(u) == {i \in 1..Len(u) : u[i] = "."}

IntPart(u) == IF Dots(u) = {} THEN u ELSE SubSeq(u, 1, (CHOOSE i \in Dots(u) : TRUE) - 1)

FracPart(u) ==
    IF Dots(u) = {} THEN <<>> ELSE SubSeq(u, (CHOOSE i \in Dots(u) : TRUE) + 1, Len(u))

\* digits, at most one point, at least one digit
DecimalOk(u, ip, fp) ==
    /\ Cardinality(Dots(u)) <= 1
    /\ AllDigits(ip) /\ AllDigits(fp)
    /\ Len(ip) + Len(fp) >= 1

Hundredths(ip, fp) == NatOf(ip) * 100 + NatOf(SubSeq(fp \o <<"0", "0">>, 1, 2))

FloatOfParts(neg, u, ip, fp) ==
    IF DecimalOk(u, ip, fp)
    THEN [ok |-> TRUE, v |-> IF neg THEN -Hundredths(ip, fp) ELSE Hundredths(ip, fp)]
    ELSE [ok |-> FALSE, v |-> 0]

FloatOfStripped(t) == FloatOfParts(IsNeg(t), Unsigned(t), IntPart(Unsigned(t)), FracPart(Unsigned(t)))

\* float(text): surrounding blanks, a sign, digits with at most one point
ParseFloat(s) == FloatOfStripped(Strip(s))

IntOfParts(neg, u) ==
    IF u # <<>> /\ AllDigits(u)
    THEN [ok |-> TRUE, v |-> IF neg THEN -NatOf(u) ELSE NatOf(u)]
    ELSE [ok |-> FALSE, v |-> 0]

IntOfStripped(t) == IntOfParts(IsNeg(t), Unsigned(t))

\* int(text): surrounding blanks, a sign, digits only
ParseInt(s) == IntOfStripped(Strip(s))

----------------------------------------------------------------------------
(* JSON values and Python's coercions of them                              *)

Absent == [t |-> "absent", s |-> <<>>, n |-> 0]

Null == [t |-> "null", s |-> <<>>, n |-> 0]

JStr(s) == [t |-> "str", s |-> s, n |-> 0]

JInt(n) == [t |-> "int", s |-> <<>>, n |-> n]

JFloat(h) == [t |-> "float", s |-> <<>>, n |-> h]

JBool(b) == [t |-> "bool", s |-> <<>>, n |-> IF b THEN 1 ELSE 0]

\* dict.get(key): a missing key reads as None
Get(v) == IF v.t = "absent" THEN Null ELSE v

\* dict.get(key, default)
GetOr(v, default) == IF v.t = "absent" THEN default ELSE v

\* bool(v)
Truthy(v) ==
    CASE v.t = "str" -> v.s # <<>>
      [] v.t \in {"int", "float", "bool"} -> v.n # 0
      [] OTHER -> FALSE

\* str(v)
ToStr(v) ==
    CASE v.t = "str"   -> v.s
      [] v.t = "int"   -> StrOfInt(v.n)
      [] v.t = "float" -> StrOfFloat(v.n)
      [] v.t = "bool"  -> IF v.n = 1 THEN <<"T", "r", "u", "e">>
                          ELSE <<"F", "a", "l", "s", "e">>
      [] OTHER         -> <<"N", "o", "n", "e">>

\* float(v), in hundredths
ToFloat(v) ==
    CASE v.t = "str"   -> ParseFloat(v.s)
      [] v.t = "int"   -> [ok |-> TRUE, v |-> v.n * 100]
      [] v.t = "bool"  -> [ok |-> TRUE, v |-> v.n * 100]
      [] v.t = "float" -> [ok |-> TRUE, v |-> v.n]
      [] OTHER         -> [ok |-> FALSE, v |-> 0]

\* int(v): a float is truncated towards zero
ToInt(v) ==
    CASE v.t = "str"   -> ParseInt(v.s)
      [] v.t = "int"   -> [ok |-> TRUE, v |-> v.n]
      [] v.t = "bool"  -> [ok |-> TRUE, v |-> v.n]
      [] v.t = "float" -> [ok |-> TRUE,
                           v |-> IF v.n < 0 THEN -((-v.n) \div 100) ELSE v.n \div 100]
      [] OTHER         -> [ok |-> FALSE, v |-> 0]

----------------------------------------------------------------------------
(* fetch_data: the normalizer                                              *)

None == "None"

MissingKey == "Missing API key in environment variables."

NoProducts == "No products found."

Paperback == <<"P", "a", "p", "e", "r", "b", "a", "c", "k">>

Hardcover == <<"H", "a", "r", "d", "c", "o", "v", "e", "r">>

Audiobook == <<"A", "u", "d", "i", "o", "b", "o", "o", "k">>

Unknown == <<"U", "n", "k", "n", "o", "w", "n">>

\* Variant: the high bound of a range is taken, split(" - ")[-1]
CleanPrice_HighBound(s) ==
    SplitLast(Remove(Remove(Remove(s, <<"$">>), <<",">>), <<"f", "r", "o", "m", " ">>),
              <<" ", "-", " ">>)

\* str(raw_price).replace("$", "").replace(",", "").replace("from ", "").split(" - ")[0]
CleanPrice(s) ==
    SplitFirst(Remove(Remove(Remove(s, <<"$">>), <<",">>), <<"f", "r", "o", "m", " ">>),
               <<" ", "-", " ">>)

\* try: price = float(clean_str) / except: price = fallback
OrElse(p, fallback) == IF p.ok THEN p.v ELSE fallback

\* Variant: a failed price parse leaves the sentinel -1.0
ParsePrice_Sentinel(raw) ==
    IF Truthy(raw) THEN OrElse(ParseFloat(CleanPrice(ToStr(raw))), -100) ELSE 0

\* price: its own try/except, so it never raises
ParsePrice(raw) ==
    IF Truthy(raw) THEN OrElse(ParseFloat(CleanPrice(ToStr(raw))), 0) ELSE 0

\* rating: float(raw_rating) if raw_rating else 0.0; ok = FALSE is a raised exception
ParseRating(raw) == IF Truthy(raw) THEN ToFloat(raw) ELSE [ok |-> TRUE, v |-> 0]

\* reviews: int(raw_reviews) if raw_reviews else 0; ok = FALSE is a raised exception
ParseReviews(raw) == IF Truthy(raw) THEN ToInt(raw) ELSE [ok |-> TRUE, v |-> 0]

\* Variant: Hardcover is tested before Paperback
InferFormat_HardcoverFirst(title) ==
    IF Contains(title, Hardcover) THEN "Hardcover"
    ELSE IF Contains(title, Paperback) THEN "Paperback"
    ELSE IF Contains(title, Audiobook) THEN "Audiobook"
    ELSE "Standard"

InferFormat(title) ==
    IF Contains(title, Paperback) THEN "Paperback"
    ELSE IF Contains(title, Hardcover) THEN "Hardcover"
    ELSE IF Contains(title, Audiobook) THEN "Audiobook"
    ELSE "Standard"

NoRecord ==
    [Title |-> <<>>, Rating |-> 0, Reviews |-> 0, Price |-> 0, Format |-> "Standard",
     Best_Seller |-> "No", Image |-> Null, Link |-> Null]

\* clean_data.append({...})
Record(item, price, rating, reviews, title) ==
    [Title       |-> title,
     Rating      |-> rating,
     Reviews     |-> reviews,
     Price       |-> price,
     Format      |-> InferFormat(title),
     Best_Seller |-> IF Truthy(Get(item.is_best_seller)) THEN "Yes" ELSE "No",
     Image       |-> GetOr(item.product_photo, JStr(<<>>)),
     Link        |-> GetOr(item.product_url, JStr(<<"#">>))]

\* The loop body after the price: exc = "" and the record appended, or the
\* exception the body raises (its message stands for str(e)).
LoopBody(item, price, rating, reviews, title) ==
    IF ~rating.ok
    THEN [exc |-> "Server Error: could not convert string to float", rec |-> NoRecord]
    ELSE IF ~reviews.ok
    THEN [exc |-> "Server Error: invalid literal for int() with base 10", rec |-> NoRecord]
    ELSE IF title.t # "str"
    THEN [exc |-> "Server Error: argument of type is not iterable", rec |-> NoRecord]
    ELSE [exc |-> "", rec |-> Record(item, price, rating.v, reviews.v, title.s)]

NormalizeItem(item) ==
    LoopBody(item,
             ParsePrice(Get(item.product_price)),
             ParseRating(Get(item.product_star_rating)),
             ParseReviews(Get(item.product_num_ratings)),
             GetOr(item.product_title, JStr(Unknown)))

\* An iteration followed by the rest of the loop: the first exception ends it
Then(head, rest) ==
    IF head.exc # "" THEN [exc |-> head.exc, rows |-> <<>>]
    ELSE IF rest.exc # "" THEN [exc |-> rest.exc, rows |-> <<>>]
    ELSE [exc |-> "", rows |-> <<head.rec>> \o rest.rows]

\* for item in products: ... clean_data.append(...)
RECURSIVE NormalizeAll(_)
NormalizeAll(products) ==
    IF products = <<>> THEN [exc |-> "", rows |-> <<>>]
    ELSE Then(NormalizeItem(Head(products)), NormalizeAll(Tail(products)))

\* return pd.DataFrame(clean_data), None, or the outer except
Returned(n) ==
    IF n.exc # "" THEN [df |-> <<>>, error |-> n.exc] ELSE [df |-> n.rows, error |-> None]

\* Variant: the `if not products` test is missing
Respond_NoEmptyCheck(resp) ==
    CASE resp.kind = "transport_error" ->
             [df |-> <<>>, error |-> "Server Error: connection failed"]
      [] resp.kind = "not_json" ->
             [df |-> <<>>, error |-> "Server Error: Expecting value"]
      [] resp.kind \in {"not_object", "data_null"} ->
             [df |-> <<>>, error |-> "Server Error: object has no attribute get"]
      [] OTHER -> Returned(NormalizeAll(resp.products))

\* The try block, given what the endpoint answers.
Respond(resp) ==
    CASE resp.kind = "transport_error" ->
             [df |-> <<>>, error |-> "Server Error: connection failed"]
      [] resp.kind = "not_json" ->
             [df |-> <<>>, error |-> "Server Error: Expecting value"]
      [] resp.kind \in {"not_object", "data_null"} ->
             [df |-> <<>>, error |-> "Server Error: object has no attribute get"]
      [] resp.kind \in {"no_data", "no_products", "products_null"} ->
             [df |-> <<>>, error |-> NoProducts]
      [] OTHER ->
             IF resp.products = <<>> THEN [df |-> <<>>, error |-> NoProducts]
             ELSE Returned(NormalizeAll(resp.products))

\* Variant: the credential is tested after the request has been sent
fetch_data_KeyCheckedLate(key, resp) ==
    IF key # "set" THEN [out |-> [df |-> <<>>, error |-> MissingKey], net |-> 1]
    ELSE [out |-> Respond(resp), net |-> 1]

\* The body of fetch_data: net counts the calls of requests.get
fetch_data(key, resp) ==
    IF key # "set" THEN [out |-> [df |-> <<>>, error |-> MissingKey], net |-> 0]
    ELSE [out |-> Respond(resp), net |-> 1]

----------------------------------------------------------------------------
(* The page: widgets, session state, the cached fetch                      *)

CATEGORIES ==
    "Technology & Programming" :> <<"p", "r", "o", "g", "r", "a", "m", "m", "i", "n", "g", " ", "b", "o", "o", "k", "s">> @@
    "Business & Money" :> <<"b", "u", "s", "i", "n", "e", "s", "s", " ", "a", "n", "d", " ", "m", "o", "n", "e", "y", " ", "b", "o", "o", "k", "s">> @@
    "Science Fiction & Fantasy" :> <<"s", "c", "i", "e", "n", "c", "e", " ", "f", "i", "c", "t", "i", "o", "n", " ", "a", "n", "d", " ", "f", "a", "n", "t", "a", "s", "y", " ", "b", "o", "o", "k", "s">> @@
    "Self-Help & Psychology" :> <<"s", "e", "l", "f", " ", "h", "e", "l", "p", " ", "b", "o", "o", "k", "s">> @@
    "Biographies" :> <<"b", "i", "o", "g", "r", "a", "p", "h", "i", "e", "s", " ", "a", "n", "d", " ", "m", "e", "m", "o", "i", "r", "s">> @@
    "History" :> <<"h", "i", "s", "t", "o", "r", "y", " ", "b", "o", "o", "k", "s">> @@
    "Children's Books" :> <<"c", "h", "i", "l", "d", "r", "e", "n", "s", " ", "b", "o", "o", "k", "s">> @@
    "Health & Fitness" :> <<"h", "e", "a", "l", "t", "h", " ", "a", "n", "d", " ", "f", "i", "t", "n", "e", "s", "s", " ", "b", "o", "o", "k", "s">> @@
    "Cookbooks" :> <<"c", "o", "o", "k", "b", "o", "o", "k", "s", " ", "f", "o", "o", "d", " ", "a", "n", "d", " ", "w", "i", "n", "e">>

SORT_OPTIONS ==
    "Relevance" :> "RELEVANCE" @@
    "Lowest Price" :> "LOWEST_PRICE" @@
    "Highest Price" :> "HIGHEST_PRICE" @@
    "Highest Rated" :> "REVIEWS" @@
    "Newest Arrivals" :> "NEWEST"

AlnumSpace ==
    {
     "a", "b", "c", "d", "e", "f", "g", "h", "i", "j", "k", "l", "m", "n", "o", "p",
     "q", "r", "s", "t", "u", "v", "w", "x", "y", "z", "A", "B", "C", "D", "E", "F",
     "G", "H", "I", "J", "K", "L", "M", "N", "O", "P", "Q", "R", "S", "T", "U", "V",
     "W", "X", "Y", "Z", "0", "1", "2", "3", "4", "5", "6", "7", "8", "9", " "}

\* re.sub(r'[^a-zA-Z0-9 ]', '', raw_query)
RECURSIVE Sanitize(_)
Sanitize(s) ==
    IF s = <<>> THEN <<>>
    ELSE (IF s[1] \in AlnumSpace THEN <<s[1]>> ELSE <<>>) \o Sanitize(Tail(s))

\* The arguments of fetch_data for a choice of the two select boxes
KeyOf(sel) == <<Sanitize(CATEGORIES[sel.category]), SORT_OPTIONS[sel.sort]>>

\* load_dotenv(): sets RAPIDAPI_KEY from the .env file unless the process
\* environment already has it (an empty value counts as set)
KeyStates == {"unset", "empty", "set"}

load_dotenv(key, file) == IF key = "unset" THEN file ELSE key

\* time.time() - st.session_state["last_run"] < 2
Cooldown == 2

\* Variant: the window is one second
CooldownActive_OneSecond(last, t) == last # <<>> /\ t - last[1] < 1

CooldownActive(last, t) == last # <<>> /\ t - last[1] < Cooldown

\* The main page: which of its three branches the script reaches
Render(d, e) ==
    IF d # <<>> /\ d[1] # <<>> THEN [warning |-> FALSE, shown |-> {"grid"}]
    ELSE IF e # None /\ e # "" THEN [warning |-> FALSE, shown |-> {"error"}]
    ELSE [warning |-> FALSE, shown |-> {"idle"}]

\* st.warning(...); st.stop(): the script ends before the main page
Stopped == [warning |-> TRUE, shown |-> {}]

NoResponse == [kind |-> "none", products |-> <<>>]

\* The body ran: its return value is stored under the arguments
Stored(c, k, r, resp) ==
    [out |-> r.out, cache |-> [c EXCEPT ![k] = <<r.out>>], net |-> r.net,
     resp |-> IF r.net = 0 THEN NoResponse ELSE resp]

\* Variant: no memoisation, the body runs on every call
CachedCall_NoReplay(c, k, key, resp) == Stored(c, k, fetch_data(key, resp), resp)

\* @st.cache_data: a stored return value for (query, sort_code) is replayed
\* without running the body
CachedCall(c, k, key, resp) ==
    IF c[k] # <<>>
    THEN [out |-> c[k][1], cache |-> c, net |-> 0, resp |-> NoResponse]
    ELSE Stored(c, k, fetch_data(key, resp), resp)

----------------------------------------------------------------------------
(* Bounds and sample inputs                                                *)

MaxProducts == 3

MaxSelections == 3

MaxTime == 4

\* Low bounds X, each with the number it denotes (in hundredths)
LowForms ==
    {[text |-> <<"9", ".", "0", "0">>, value |-> 900],
     [text |-> <<"1", "2", ".", "9", "9">>, value |-> 1299],
     [text |-> <<"2", "9", ".", "9", "9">>, value |-> 2999],
     [text |-> <<"1", ",", "2", "3", "4", ".", "5", "6">>, value |-> 123456],
     [text |-> <<"5">>, value |-> 500]}

\* High bounds Y
HighForms ==
    {<<"2", "0", ".", "0", "0">>,
     <<"4", "5", ".", "0", "0">>,
     <<"2", ",", "0", "0", "0", ".", "0", "0">>}

\* "$X"
DollarPrice(x) == JStr(<<"$">> \o x)

\* "from $X - $Y"
RangePrice(x, y) ==
    JStr(<<"f", "r", "o", "m", " ", "$">> \o x \o <<" ", "-", " ", "$">> \o y)

SamplePrices ==
    {DollarPrice(x.text) : x \in LowForms}
    \cup {RangePrice(x.text, y) : x \in LowForms, y \in HighForms}
    \cup {Absent, Null, JStr(<<>>), JStr(<<"N", "/", "A">>), JStr(<<"f", "r", "e", "e">>), JStr(<<"-", "$", "5", ".", "0", "0">>),
          JStr(<<"$", "9", ".", "0", "0", " ", "-", " ", "$", "2", "0", ".", "0", "0">>), JFloat(1250), JInt(12), JInt(0)}

SampleRatings ==
    {Absent, JStr(<<"4", ".", "7">>), JStr(<<"N", "/", "A">>), JStr(<<"-", "1">>), JStr(<<>>), JFloat(470)}

SampleReviews ==
    {Absent, JStr(<<"1", "5", "0", "0">>), JStr(<<"1", ",", "5", "0", "0">>), JStr(<<"-", "3">>), JInt(1500), JFloat(450)}

\* Titles, each with the format the candidate order Paperback, Hardcover,
\* Audiobook gives it
TitleForms ==
    {[text |-> <<"D", "u", "n", "e">>,
      format |-> "Standard"],
     [text |-> <<"D", "u", "n", "e", " ", "P", "a", "p", "e", "r", "b", "a", "c", "k">>,
      format |-> "Paperback"],
     [text |-> <<"D", "u", "n", "e", " ", "H", "a", "r", "d", "c", "o", "v", "e", "r">>,
      format |-> "Hardcover"],
     [text |-> <<"D", "u", "n", "e", " ", "A", "u", "d", "i", "o", "b", "o", "o", "k">>,
      format |-> "Audiobook"],
     [text |-> <<"H", "a", "r", "d", "c", "o", "v", "e", "r", " ", "a", "n", "d", " ", "P", "a", "p", "e", "r", "b", "a", "c", "k">>,
      format |-> "Paperback"],
     [text |-> <<"A", "u", "d", "i", "o", "b", "o", "o", "k", " ", "o", "f", " ", "t", "h", "e", " ", "H", "a", "r", "d", "c", "o", "v", "e", "r">>,
      format |-> "Hardcover"],
     [text |-> <<"p", "a", "p", "e", "r", "b", "a", "c", "k", " ", "d", "u", "n", "e">>,
      format |-> "Standard"]}

SampleTitles == {JStr(x.text) : x \in TitleForms} \cup {Absent, Null}

SampleExtras ==
    {[b |-> Absent, ph |-> Absent, u |-> Absent],
     [b |-> JBool(TRUE), ph |-> JStr(<<"h", "t", "t", "p", ":", "/", "/", "i", "m", "g">>), u |-> JStr(<<"h", "t", "t", "p", ":", "/", "/", "b", "u", "y">>)],
     [b |-> JStr(<<"y", "e", "s">>), ph |-> JStr(<<>>), u |-> Absent]}

RawProduct(p, r, n, title, x) ==
    [product_price |-> p, product_star_rating |-> r, product_num_ratings |-> n,
     product_title |-> title, is_best_seller |-> x.b, product_photo |-> x.ph,
     product_url |-> x.u]

AllProducts ==
    {RawProduct(p, r, n, title, x) : p \in SamplePrices, r \in SampleRatings,
                                     n \in SampleReviews, title \in SampleTitles,
                                     x \in SampleExtras}

NoExtras == [b |-> Absent, ph |-> Absent, u |-> Absent]

\* The end-to-end example of the specification
CleanCode ==
    RawProduct(RangePrice(<<"2", "9", ".", "9", "9">>, <<"4", "5", ".", "0", "0">>), JStr(<<"4", ".", "7">>), JStr(<<"1", "5", "0", "0">>),
               JStr(<<"C", "l", "e", "a", "n", " ", "C", "o", "d", "e", " ", "P", "a", "p", "e", "r", "b", "a", "c", "k", " ", "E", "d", "i", "t", "i", "o", "n">>),
               [b |-> JBool(TRUE), ph |-> Absent, u |-> Absent])

Degraded == RawProduct(Absent, Absent, Absent, Absent, NoExtras)

BadRating == RawProduct(DollarPrice(<<"1", "2", ".", "9", "9">>), JStr(<<"N", "/", "A">>), JStr(<<"1", "5", "0", "0">>), JStr(<<"D", "u", "n", "e", " ", "H", "a", "r", "d", "c", "o", "v", "e", "r">>), NoExtras)

BadReviews == RawProduct(JStr(<<"f", "r", "e", "e">>), JStr(<<"4", ".", "5">>), JStr(<<"1", ",", "5", "0", "0">>), JStr(<<"D", "u", "n", "e", " ", "A", "u", "d", "i", "o", "b", "o", "o", "k">>), NoExtras)

NullTitle == RawProduct(Absent, Absent, Absent, Null, NoExtras)

ListPool == {CleanCode, Degraded, BadRating, BadReviews, NullTitle}

Lists == UNION {[1..n -> ListPool] : n \in 0..MaxProducts}

ProductList(ps) == [kind |-> "list", products |-> ps]

Shapes ==
    {[kind |-> k, products |-> <<>>] :
        k \in {"transport_error", "not_json", "not_object", "no_data", "data_null",
               "no_products", "products_null"}}

\* What the endpoint may answer
Responses ==
    Shapes \cup {ProductList(ps) : ps \in Lists} \cup {ProductList(<<p>>) : p \in AllProducts}

PageResponses ==
    {[kind |-> "transport_error", products |-> <<>>], ProductList(<<>>),
     ProductList(<<CleanCode>>), ProductList(<<BadRating>>)}

Selections ==
    <<[category |-> "Technology & Programming", sort |-> "Relevance"],
      [category |-> "Technology & Programming", sort |-> "Lowest Price"],
      [category |-> "Children's Books", sort |-> "Relevance"],
      [category |-> "Business & Money", sort |-> "Highest Rated"],
      [category |-> "Cookbooks", sort |-> "Newest Arrivals"]>>

Selectable == {Selections[i] : i \in 1..MaxSelections}

Keys == {KeyOf(s) : s \in Selectable}

----------------------------------------------------------------------------
(* State machine.  One action is one run of the script, top to bottom.     *)
(*   apiKey    RAPIDAPI_KEY in the process environment                     *)
(*   cache     the store of @st.cache_data: <<>> or <<return value>>       *)
(*   data      session_state['data']: <<>> is None, <<df>> a DataFrame     *)
(*   error     session_state['error']                                      *)
(*   last_run  session_state["last_run"]: <<>> while the key is not there  *)
(*   now       time.time(), in seconds                                     *)
(*   selected  the two select boxes                                        *)
(*   view      what the latest run of the script put on the page           *)
(*   call      the call of fetch_data the latest run made, <<>> if none    *)

Init ==
    /\ apiKey \in KeyStates
    /\ cache = [k \in Keys |-> <<>>]
    /\ data = <<>>
    /\ error = None
    /\ last_run = <<>>
    /\ now = 0
    /\ selected = Selections[1]
    /\ view = Render(<<>>, None)
    /\ call = <<>>

\* st.warning(...); st.stop()
Reject ==
    /\ view' = Stopped
    /\ call' = <<>>
    /\ UNCHANGED <<cache, data, error, last_run, now, selected>>

\* The press is accepted: c is what the cached fetch_data gives
Accept(key, k, c) ==
    /\ last_run' = <<now>>
    /\ cache' = c.cache
    /\ data' = <<c.out.df>>
    /\ error' = c.out.error
    /\ view' = Render(<<c.out.df>>, c.out.error)
    /\ call' = <<[args |-> k, key |-> key, before |-> cache[k],
                  resp |-> c.resp, net |-> c.net, out |-> c.out]>>
    /\ UNCHANGED <<now, selected>>

\* One run of the script with the button pressed, the environment already read
Handler(key, resp) ==
    IF CooldownActive(last_run, now) THEN Reject
    ELSE Accept(key, KeyOf(selected), CachedCall(cache, KeyOf(selected), key, resp))

\* The "Run Analysis" button is pressed
RunAnalysis(answers) ==
    \E file \in KeyStates, resp \in answers :
        /\ apiKey' = load_dotenv(apiKey, file)
        /\ Handler(load_dotenv(apiKey, file), resp)

\* A select box is changed: the script reruns without the button
Select ==
    \E file \in KeyStates, s \in Selectable \ {selected} :
        /\ apiKey' = load_dotenv(apiKey, file)
        /\ selected' = s
        /\ view' = Render(data, error)
        /\ call' = <<>>
        /\ UNCHANGED <<cache, data, error, last_run, now>>

\* A second passes
Tick ==
    /\ now < MaxTime
    /\ now' = now + 1
    /\ UNCHANGED <<apiKey, cache, data, error, last_run, selected, view, call>>

Press == RunAnalysis(PageResponses)

Next == Press \/ Select \/ Tick

Spec == Init /\ [][Next]_vars

\* The normalizer alone: the first press of a session, over every sample answer
Fetch == last_run = <<>> /\ RunAnalysis(Responses)

NextFetch == Fetch

SpecFetch == Init /\ [][NextFetch]_vars

----------------------------------------------------------------------------
(* Properties                                                              *)

Called == call # <<>>

\* The latest run called fetch_data, its body ran and the endpoint answered
\* with a product array
Answered == Called /\ call[1].net = 1 /\ call[1].resp.kind = "list"

Products == call[1].resp.products

Frame == call[1].out.df

\* The latest run produced one record per product
Normalized == Answered /\ call[1].out.error = None /\ Len(Frame) = Len(Products)

TitleOf(item) == GetOr(item.product_title, JStr(Unknown))

FailsPrice(item) ==
    LET raw == Get(item.product_price)
    IN  raw.t = "null" \/ ~ParseFloat(CleanPrice(ToStr(raw))).ok

FailsRating(item) == ~ToFloat(Get(item.product_star_rating)).ok

FailsReviews(item) == ~ToInt(Get(item.product_num_ratings)).ok

\* The raw value is a negative number, or text with a minus sign before its
\* first digit
Negative(v) ==
    \/ v.t \in {"int", "float"} /\ v.n < 0
    \/ v.t = "str" /\ \E i \in 1..Len(v.s) :
                          v.s[i] = "-" /\ \A j \in 1..(i - 1) : ~IsDigit(v.s[j])

\* C1: a non-empty product array of length N yields N records and no error,
\* record i made from item i, whatever the values of the items' fields.
C1_EveryItemKept ==
    (Answered /\ Products # <<>>) =>
        /\ call[1].out.error = None
        /\ Len(Frame) = Len(Products)
        /\ \A i \in 1..Len(Products) : Frame[i].Title = TitleOf(Products[i]).s

\* C2: a price, rating or review count that is absent or fails to parse
\* becomes 0 in its record, and the fetch still succeeds with every record.
C2_FieldFailuresDefaulted ==
    (Answered /\ \A i \in 1..Len(Products) : TitleOf(Products[i]).t = "str") =>
        \A i \in 1..Len(Products) :
            /\ FailsPrice(Products[i]) => Normalized /\ Frame[i].Price = 0
            /\ FailsRating(Products[i]) => Normalized /\ Frame[i].Rating = 0
            /\ FailsReviews(Products[i]) => Normalized /\ Frame[i].Reviews = 0

\* C3: a fetch requested while no API key is configured returns the empty
\* record set with the missing-key message and sends no request, whatever
\* was fetched before.
C3_MissingKey ==
    (Called /\ call[1].key # "set") =>
        /\ call[1].out = [df |-> <<>>, error |-> MissingKey]
        /\ call[1].net = 0
        /\ data = <<<<>>>>
        /\ error = MissingKey

C3_Witness ==
    /\ Called
    /\ call[1].key # "set"
    /\ \E k \in Keys \ {call[1].args} : cache[k] # <<>>

\* C4: a request sends at most one HTTP call; once a request for a
\* (query, sort code) pair has returned, its result stays stored, and every
\* later request for the pair sends nothing and returns that result.
C4_Replay ==
    /\ [](Called =>
            /\ call[1].net <= 1
            /\ cache[call[1].args] = <<call[1].out>>
            /\ data = <<call[1].out.df>> /\ error = call[1].out.error
            /\ call[1].before # <<>> =>
                   call[1].net = 0 /\ call[1].out = call[1].before[1])
    /\ [][\A k \in Keys : cache[k] # <<>> => cache'[k] = cache[k]]_vars

C4_Witness ==
    /\ Called
    /\ call[1].before # <<>>
    /\ call[1].before[1].error = None
    /\ call[1].net = 0

\* C5: while less than 2 seconds have passed since the last accepted press,
\* no press calls fetch_data or changes the stored data, the stored error or
\* the last-run time; accepted presses are at least 2 seconds apart.
C5_Cooldown ==
    /\ [][(last_run # <<>> /\ now - last_run[1] < 2) =>
             /\ data' = data /\ error' = error /\ last_run' = last_run
             /\ cache' = cache
             /\ call' \in {call, <<>>}]_vars
    /\ [][(last_run # <<>> /\ last_run' # last_run) =>
             last_run'[1] - last_run[1] >= 2]_vars
    /\ [](Called => last_run # <<>>)

C5_Witness ==
    /\ view = Stopped
    /\ data # <<>>
    /\ now - last_run[1] < 2

\* C6: every run of the script shows exactly one of the results grid, the
\* error message and the idle prompt.
C6_ExactlyOneView == Cardinality(view.shown) = 1

\* C7: an empty product array, or a response without the products path,
\* returns the empty record set with "No products found.".
C7_NoProducts ==
    (/\ Called
     /\ call[1].net = 1
     /\ \/ call[1].resp.kind \in {"no_data", "no_products"}
        \/ call[1].resp.kind = "list" /\ Products = <<>>) =>
        /\ call[1].out = [df |-> <<>>, error |-> NoProducts]
        /\ data = <<<<>>>>
        /\ error = NoProducts

C7_Witness ==
    /\ Called
    /\ call[1].resp.kind = "no_products"
    /\ error = NoProducts

\* C8 as claimed: Rating, Reviews and Price are >= 0 in every record, for
\* every raw input.
C8_NonNegative ==
    Answered => \A i \in 1..Len(Frame) :
        Frame[i].Rating >= 0 /\ Frame[i].Reviews >= 0 /\ Frame[i].Price >= 0

\* C8 as amended: no clamping is applied; Rating, Reviews and Price are >= 0
\* in every record whose raw value is not a negative number, and a negative
\* raw rating or review count is passed through.
C8_NegativeOnlyFromRaw ==
    Normalized => \A i \in 1..Len(Frame) :
        /\ ~Negative(Products[i].product_star_rating) => Frame[i].Rating >= 0
        /\ ~Negative(Products[i].product_num_ratings) => Frame[i].Reviews >= 0
        /\ ~Negative(Products[i].product_price) => Frame[i].Price >= 0
        /\ Products[i].product_star_rating = JStr(<<"-", "1">>) =>
               Frame[i].Rating = -100
        /\ Products[i].product_num_ratings = JStr(<<"-", "3">>) =>
               Frame[i].Reviews = -3

C8_Witness ==
    /\ Normalized
    /\ \E i \in 1..Len(Frame) :
           /\ Products[i].product_price = JStr(<<"N", "/", "A">>)
           /\ Products[i].product_star_rating = JStr(<<"-", "1">>)
           /\ Frame[i].Price = 0
           /\ Frame[i].Rating < 0

\* C9: for a raw price "$X", "$X,XXX.YY" or "from $X - $Y" the Price is the
\* number X denotes, thousands separators removed, whatever Y is.
C9_LowBound ==
    Normalized => \A i \in 1..Len(Frame) : \A x \in LowForms :
        (\/ Products[i].product_price = DollarPrice(x.text)
         \/ \E y \in HighForms : Products[i].product_price = RangePrice(x.text, y))
            => Frame[i].Price = x.value

C9_Witness ==
    /\ Normalized
    /\ \E i \in 1..Len(Frame) :
           /\ Products[i].product_price =
                  RangePrice(<<"1", ",", "2", "3", "4", ".", "5", "6">>,
                             <<"2", ",", "0", "0", "0", ".", "0", "0">>)
           /\ Frame[i].Price = 123456

\* C10: Format is one of Standard, Paperback, Hardcover, Audiobook, decided
\* by case-sensitive substring search of the title in the order Paperback,
\* Hardcover, Audiobook; the first found wins and none found is Standard.
C10_Format ==
    Normalized => \A i \in 1..Len(Frame) :
        LET title == Frame[i].Title
            fmt   == Frame[i].Format
        IN  /\ title = TitleOf(Products[i]).s
            /\ fmt \in {"Standard", "Paperback", "Hardcover", "Audiobook"}
            /\ fmt = "Paperback" <=> Contains(title, Paperback)
            /\ fmt = "Hardcover" <=>
                   Contains(title, Hardcover) /\ ~Contains(title, Paperback)
            /\ fmt = "Standard" <=>
                   ~\E c \in {Paperback, Hardcover, Audiobook} : Contains(title, c)
            /\ \A x \in TitleForms : title = x.text => fmt = x.format

C10_Witness ==
    /\ Normalized
    /\ \E i \in 1..Len(Frame) :
           /\ Contains(Frame[i].Title, Paperback)
           /\ Contains(Frame[i].Title, Hardcover)
           /\ Frame[i].Format = "Paperback"

====
